---- MODULE Spec2Model ----
(***************************************************************************)
(* Multi-tenant DQL executor and merger (dtdash, multi-tenant.ts).         *)
(*                                                                         *)
(* The merge engine (asArray, normalize, globalTimeframe,                  *)
(* inferTypesFromRecord, mergeMultiTenant) is a set of pure functions      *)
(* over decoded JSON.  They are modelled as operators over tagged JS       *)
(* values; the specification Spec draws the input sequence of              *)
(* {tenant, json} pairs from bounded families and applies the merger.      *)
(* SpecMain models the top-level operation (target resolution, the         *)
(* concurrent tenant fetches joined by Promise.all, the catch-all).        *)
(* SpecAlias gives the input objects addresses and follows the writes of   *)
(* the merger and of a later writer to the emitted type descriptor.        *)
(***************************************************************************)
EXTENDS Integers, Sequences, FiniteSets, TLC

VARIABLES
    variant,     \* which copy of the merger runs: 1 = lines 1-232, 2 = lines 234-432
    responses,   \* the merger's argument: a sequence of [tenant, json]
    result,      \* what the merger call produced: a value or a raised error
    pc,          \* position of the top-level operation / of the merger call
    cfg,         \* the operation's configuration ($tenant, credential id, query)
    fetches,     \* per target: the position, outcome and completion rank of its fetch
    ret,         \* what the top-level operation gave its caller
    heap         \* the caller's objects by address, where identity is tracked

vars == <<variant, responses, result, pc, cfg, fetches, ret, heap>>

(***************************************************************************)
(* Bounds of the model.                                                    *)
(***************************************************************************)
MaxTenants == 2      \* longest input sequence handed to the merger
MaxRows == 2         \* most records in the record-oriented input families
MaxTs == 2           \* timestamps 0..MaxTs (scaled milliseconds)
MaxCounter == 2      \* counter values 0..MaxCounter
MaxFields == 2       \* most fields listed in a grouping clause

(***************************************************************************)
(* JS values.  Every value is a tagged record so that values of different  *)
(* JS types can be compared.  Three tags stand for JS strings: "str" (an   *)
(* atomic literal, none of which is a date or holds a by-clause), "tstr"   *)
(* (an ISO-8601 timestamp: wall-clock reading and UTC offset) and "text"   *)
(* (a query text, as a sequence of characters).                            *)
(***************************************************************************)
EmptyMap == [k \in {} |-> 0]
Undef == [t |-> "undef"]
Null == [t |-> "null"]
NaN == [t |-> "nan"]
PosInf == [t |-> "inf"]
NegInf == [t |-> "ninf"]
Num(n) == [t |-> "num", n |-> n]
Bool(b) == [t |-> "bool", b |-> b]
Str(s) == [t |-> "str", s |-> s]
TStr(local, off) == [t |-> "tstr", local |-> local, off |-> off]
Text(c) == [t |-> "text", c |-> c]
Arr(a) == [t |-> "arr", a |-> a, o |-> EmptyMap]
Obj(o) == [t |-> "obj", o |-> o]
EmptyObj == Obj(EmptyMap)

Put(m, k, v) == [x \in (DOMAIN m) \cup {k} |-> IF x = k THEN v ELSE m[x]]
Over(m1, m2) == [x \in (DOMAIN m1) \cup (DOMAIN m2) |->
                   IF x \in DOMAIN m2 THEN m2[x] ELSE m1[x]]

Nullish(v) == v.t \in {"undef", "null"}
IsString(v) == v.t \in {"str", "tstr", "text"}
IsObject(v) == v.t \in {"obj", "arr"}    \* a value that can hold properties
IsFinite(v) == v.t = "num"               \* Number.isFinite

\* ToBoolean
Truthy(v) ==
    CASE v.t \in {"undef", "null", "nan"} -> FALSE
      [] v.t = "num" -> v.n # 0
      [] v.t = "bool" -> v.b
      [] v.t = "str" -> v.s # ""
      [] v.t = "text" -> Len(v.c) > 0
      [] OTHER -> TRUE

\* typeof v
TypeOf(v) ==
    CASE v.t = "undef" -> "undefined"
      [] v.t \in {"num", "nan", "inf", "ninf"} -> "number"
      [] v.t = "bool" -> "boolean"
      [] IsString(v) -> "string"
      [] OTHER -> "object"

\* v.k for a v that is not null or undefined (none of the names read by the
\* code is a property of a primitive's or an array's prototype)
Get(v, k) == IF IsObject(v) /\ k \in DOMAIN v.o THEN v.o[k] ELSE Undef
\* v?.k
OptGet(v, k) == IF Nullish(v) THEN Undef ELSE Get(v, k)
\* a[i] for an array (0-based)
Index(v, i) == IF v.t = "arr" /\ i + 1 \in 1..Len(v.a) THEN v.a[i + 1] ELSE Undef
\* a ?? b and a || b
Coalesce(a, b) == IF Nullish(a) THEN b ELSE a
Or(a, b) == IF Truthy(a) THEN a ELSE b
\* "k in v" for an object v
HasKey(v, k) == IF v.t = "arr" THEN k \in DOMAIN v.o \/ k = "length"
                ELSE k \in DOMAIN v.o
\* v.k = x: a property can be created on an object or an array only; on a
\* primitive the assignment raises (module code is strict)
SetProp(v, k, x) == [v EXCEPT !.o = Put(v.o, k, x)]

\* the characters of the atomic string literals the model uses
Chars(s) ==
    CASE s = "" -> <<>>
      [] s = "x" -> <<"x">>
      [] s = "Z" -> <<"Z">>
      [] s = "7" -> <<"7">>
      [] s = "n/a" -> <<"n", "/", "a">>

\* the own enumerable properties copied by {...v}
Spread(v) ==
    CASE v.t = "obj" -> v.o
      [] v.t = "arr" ->
           Over([k \in {ToString(i - 1) : i \in 1..Len(v.a)} |->
                    v.a[CHOOSE i \in 1..Len(v.a) : ToString(i - 1) = k]], v.o)
      [] v.t = "str" ->
           [k \in {ToString(i - 1) : i \in 1..Len(Chars(v.s))} |->
               Str(Chars(v.s)[CHOOSE i \in 1..Len(Chars(v.s)) : ToString(i - 1) = k])]
      [] v.t = "text" ->
           [k \in {ToString(i - 1) : i \in 1..Len(v.c)} |->
               Str(v.c[CHOOSE i \in 1..Len(v.c) : ToString(i - 1) = k])]
      [] v.t \in {"undef", "null", "nan", "inf", "ninf", "num", "bool"} -> EmptyMap

\* the numeric value of an atomic string literal (StringToNumber)
StringNumber(s) ==
    CASE s = "" -> Num(0)
      [] s = "7" -> Num(7)
      [] OTHER -> NaN

\* Number(v)
RECURSIVE ToNumber(_)
ToNumber(v) ==
    CASE v.t = "undef" -> NaN
      [] v.t = "null" -> Num(0)
      [] v.t = "bool" -> IF v.b THEN Num(1) ELSE Num(0)
      [] v.t \in {"num", "nan", "inf", "ninf"} -> v
      [] v.t = "str" -> StringNumber(v.s)
      [] v.t = "tstr" -> NaN
      [] v.t = "text" -> IF Len(v.c) = 0 THEN Num(0) ELSE NaN
      [] v.t = "arr" ->
           IF Len(v.a) = 0 THEN Num(0)
           ELSE IF Len(v.a) > 1 THEN NaN
           ELSE IF Nullish(v.a[1]) THEN Num(0)
           ELSE IF v.a[1].t \in {"num", "str", "arr"} THEN ToNumber(v.a[1])
           ELSE NaN
      [] v.t = "obj" -> NaN

\* a + b on numbers
JsAdd(a, b) ==
    IF a.t = "num" /\ b.t = "num" THEN Num(a.n + b.n)
    ELSE IF a.t = "nan" \/ b.t = "nan" THEN NaN
    ELSE IF a.t = "num" THEN b
    ELSE IF b.t = "num" THEN a
    ELSE IF a = b THEN a ELSE NaN

\* Math.min(a, b) and Math.max(a, b) for a finite b
JsMin(a, b) ==
    CASE a.t = "inf" -> b
      [] a.t = "ninf" -> a
      [] a.t = "nan" -> NaN
      [] a.t = "num" -> IF b.n < a.n THEN b ELSE a
JsMax(a, b) ==
    CASE a.t = "ninf" -> b
      [] a.t = "inf" -> a
      [] a.t = "nan" -> NaN
      [] a.t = "num" -> IF b.n > a.n THEN b ELSE a

(***************************************************************************)
(* Dates.  Timestamps are scaled: the wall-clock readings of the model     *)
(* are 0..MaxTs, an offset of -1 puts the instant one unit later in UTC,   *)
(* and the largest instant a Date can hold (8.64e15 ms) is MaxDateMs.      *)
(***************************************************************************)
MaxDateMs == MaxTs + 2
HugeMs == MaxDateMs + 1
\* Date.parse(s)
DateParse(v) == IF v.t = "tstr" THEN Num(v.local - v.off) ELSE NaN
\* new Date(ms).toISOString() raises a RangeError outside the Date range
IsoRaises(ms) == ms > MaxDateMs \/ ms < 0 - MaxDateMs
toISOString(ms) == TStr(ms, 0)

\* outcomes of a call: a value, or a raised error
Ok(v) == [ok |-> TRUE, error |-> "", value |-> v]
Raise(e) == [ok |-> FALSE, error |-> e, value |-> Undef]

(***************************************************************************)
(* Object identity. An object or array the caller holds carries the        *)
(* address it lives at (field at); an object literal, a spread, a map or   *)
(* a JSON round trip makes an object without one, that is a new object;    *)
(* SetProp keeps the address of the object written to. The store maps the  *)
(* address of every object the caller holds to that object's own content,  *)
(* the objects it refers to being named by address.                        *)
(***************************************************************************)
IsLocated(v) == v.t \in {"obj", "arr"} /\ "at" \in DOMAIN v

\* the decoded payload v as the caller holds it, its objects at path and below
RECURSIVE Locate(_, _)
Locate(v, path) ==
    CASE v.t = "obj" ->
           [t |-> "obj",
            o |-> [k \in DOMAIN v.o |-> Locate(v.o[k], Append(path, k))],
            at |-> path]
      [] v.t = "arr" ->
           [t |-> "arr",
            a |-> [j \in 1..Len(v.a) |-> Locate(v.a[j], Append(path, ToString(j)))],
            o |-> v.o,
            at |-> path]
      [] OTHER -> v

cellOf(v) == IF IsLocated(v) THEN [t |-> "ref", at |-> v.at] ELSE v

\* the content of one object: its own properties and elements
contentOf(v) ==
    IF v.t = "obj" THEN [t |-> "obj", o |-> [k \in DOMAIN v.o |-> cellOf(v.o[k])]]
    ELSE [t |-> "arr", a |-> [j \in 1..Len(v.a) |-> cellOf(v.a[j])], o |-> v.o]

\* the caller's objects reachable from v
RECURSIVE objectsIn(_)
objectsIn(v) ==
    CASE v.t = "obj" ->
           (IF IsLocated(v) THEN {v} ELSE {})
              \cup UNION {objectsIn(v.o[k]) : k \in DOMAIN v.o}
      [] v.t = "arr" ->
           (IF IsLocated(v) THEN {v} ELSE {})
              \cup UNION {objectsIn(v.a[j]) : j \in 1..Len(v.a)}
      [] OTHER -> {}

storeOf(resp) ==
    LET objs == UNION {objectsIn(resp[i].json) : i \in 1..Len(resp)}
    IN  [a \in {x.at : x \in objs} |-> contentOf(CHOOSE x \in objs : x.at = a)]

\* the store after the writes that left the caller's objects in v as they
\* are in v
written(h, v) ==
    IF DOMAIN h = {} THEN h
    ELSE LET objs == {x \in objectsIn(v) : x.at \in DOMAIN h}
         IN  [a \in DOMAIN h |->
                IF \E x \in objs : x.at = a /\ contentOf(x) # h[a]
                THEN contentOf(CHOOSE x \in objs : x.at = a /\ contentOf(x) # h[a])
                ELSE h[a]]

(***************************************************************************)
(* utils (multi-tenant.ts 8-21)                                            *)
(***************************************************************************)
asArray(v) == IF v.t = "arr" THEN v ELSE IF Truthy(v) THEN Arr(<<v>>) ELSE Arr(<<>>)

\* JSON.parse(JSON.stringify(obj)): properties holding undefined are dropped,
\* non-finite numbers and undefined array elements become null, and
\* properties set on an array are lost
\* faulty variant: { ...obj }, a copy of the top level only
deepCloneTopLevel(v) == IF v.t = "obj" THEN Obj(v.o) ELSE v

RECURSIVE deepClone(_)
deepClone(v) ==
    CASE v.t = "obj" ->
           Obj([k \in {x \in DOMAIN v.o : v.o[x].t # "undef"} |-> deepClone(v.o[k])])
      [] v.t = "arr" -> Arr([i \in 1..Len(v.a) |-> deepClone(v.a[i])])
      [] v.t \in {"undef", "nan", "inf", "ninf"} -> Null
      [] OTHER -> v

parseTs(s) == IF TypeOf(s) = "string" THEN DateParse(s) ELSE ToNumber(s)

normalize(json) ==
    LET r == Coalesce(Coalesce(OptGet(json, "result"), json), EmptyObj)
    IN  [records |-> asArray(Get(r, "records")),
         types |-> asArray(Get(r, "types")),
         metadata |-> Coalesce(Get(r, "metadata"), EmptyObj),
         metrics |-> asArray(Get(r, "metrics"))]

(***************************************************************************)
(* globalTimeframe (multi-tenant.ts 23-43); records is a sequence of rows  *)
(***************************************************************************)
\* faulty variant: only the records of the first record's tenant are looked at
minStartFirstTenant(records) ==
    LET F[i \in 0..Len(records)] ==
          IF i = 0 THEN PosInf
          ELSE LET s == parseTs(OptGet(OptGet(records[i], "timeframe"), "start"))
               IN  IF IsFinite(s) /\ Get(records[i], "tenant") = Get(records[1], "tenant")
                   THEN JsMin(F[i - 1], s) ELSE F[i - 1]
    IN  F[Len(records)]

minStart(records) ==
    LET F[i \in 0..Len(records)] ==
          IF i = 0 THEN PosInf
          ELSE LET s == parseTs(OptGet(OptGet(records[i], "timeframe"), "start"))
               IN  IF IsFinite(s) THEN JsMin(F[i - 1], s) ELSE F[i - 1]
    IN  F[Len(records)]

maxEnd(records) ==
    LET F[i \in 0..Len(records)] ==
          IF i = 0 THEN NegInf
          ELSE LET e == parseTs(OptGet(OptGet(records[i], "timeframe"), "end"))
               IN  IF IsFinite(e) THEN JsMax(F[i - 1], e) ELSE F[i - 1]
    IN  F[Len(records)]

globalTimeframe(records, baseMeta) ==
    LET minS == minStart(records)
        maxE == maxEnd(records)
        grail == Coalesce(OptGet(baseMeta, "grail"), EmptyObj)
        computed == IsFinite(minS) /\ IsFinite(maxE)
        tf == IF computed
              THEN Obj([start |-> toISOString(minS.n), end |-> toISOString(maxE.n)])
              ELSE Get(grail, "analysisTimeframe")
    IN  IF computed /\ (IsoRaises(minS.n) \/ IsoRaises(maxE.n))
        THEN Raise("RangeError")
        ELSE Ok(Obj(Put(Spread(baseMeta), "grail",
                        Obj(Put(Spread(grail), "analysisTimeframe", tf)))))

(***************************************************************************)
(* inferTypesFromRecord (multi-tenant.ts 46-69)                            *)
(***************************************************************************)
\* String(v) consists of decimal digits only
RECURSIVE DigitsOnly(_)
DigitsOnly(v) ==
    CASE v.t = "num" -> v.n >= 0
      [] v.t = "str" -> v.s \in {"7"}
      [] v.t = "text" -> Len(v.c) > 0 /\
                         \A i \in 1..Len(v.c) :
                            v.c[i] \in {"0", "1", "2", "3", "4", "5", "6", "7", "8", "9"}
      [] v.t = "arr" -> Len(v.a) = 1 /\ ~Nullish(v.a[1]) /\ DigitsOnly(v.a[1])
      [] OTHER -> FALSE

\* v.find((x) => x != null)
FirstNonNull(a) ==
    IF \E i \in 1..Len(a) : ~Nullish(a[i])
    THEN a[CHOOSE i \in 1..Len(a) :
                ~Nullish(a[i]) /\ \A j \in 1..(i - 1) : Nullish(a[j])]
    ELSE Undef

inferMapping(k, v) ==
    IF k = "timeframe" /\ Truthy(v) /\ TypeOf(v) = "object"
       /\ HasKey(v, "start") /\ HasKey(v, "end")
    THEN Obj([type |-> Str("timeframe")])
    ELSE IF k = "interval" /\ (TypeOf(v) = "number" \/ DigitsOnly(v))
    THEN Obj([type |-> Str("duration")])
    ELSE IF v.t = "arr"
    THEN Obj([type |-> Str("array"),
              types |-> Arr(<<Obj([
                  indexRange |-> Arr(<<Num(0),
                      Num(IF Len(v.a) - 1 > 0 THEN Len(v.a) - 1 ELSE 0)>>),
                  mappings |-> Obj([element |-> Obj([type |->
                      IF TypeOf(FirstNonNull(v.a)) = "number"
                      THEN Str("double") ELSE Str("string")])])])>>)])
    ELSE Obj([type |-> Str("string")])

inferTypesFromRecord(sample) ==
    LET entries == Spread(Coalesce(sample, EmptyObj))
    IN  Arr(<<Obj([indexRange |-> Arr(<<Num(0), Num(1)>>),
                   mappings |-> Obj([k \in DOMAIN entries |->
                                        inferMapping(k, entries[k])])])>>)

(***************************************************************************)
(* addTenantToBy (multi-tenant.ts 179-186): the first match of the         *)
(* by-clause pattern (by: optional spaces, an opening brace, everything    *)
(* up to the first closing brace; case-insensitive) is replaced by         *)
(* by:{f1, ..., fn, tenant}, tenant being added only if not listed.        *)
(***************************************************************************)
IsSpace(ch) == ch \in {" ", "\t", "\n"}

RECURSIVE SkipSpace(_, _)
SkipSpace(c, i) == IF i <= Len(c) /\ IsSpace(c[i]) THEN SkipSpace(c, i + 1) ELSE i

\* the regular expression matches at position i: by: \s* { ... }
ByMatchAt(c, i) ==
    /\ i + 2 <= Len(c)
    /\ c[i] \in {"b", "B"} /\ c[i + 1] \in {"y", "Y"} /\ c[i + 2] = ":"
    /\ LET j == SkipSpace(c, i + 3)
       IN  j <= Len(c) /\ c[j] = "{" /\ \E k \in (j + 1)..Len(c) : c[k] = "}"

\* s.trim()
RECURSIVE TrimLeft(_)
TrimLeft(s) == IF Len(s) > 0 /\ IsSpace(s[1]) THEN TrimLeft(Tail(s)) ELSE s
RECURSIVE TrimRight(_)
TrimRight(s) == IF Len(s) > 0 /\ IsSpace(s[Len(s)])
                THEN TrimRight(SubSeq(s, 1, Len(s) - 1)) ELSE s
Trim(s) == TrimRight(TrimLeft(s))

\* g1.split(","), as a sequence of character sequences
RECURSIVE SplitComma(_)
SplitComma(s) ==
    IF \E i \in 1..Len(s) : s[i] = ","
    THEN LET i == CHOOSE x \in 1..Len(s) :
                     s[x] = "," /\ \A y \in 1..(x - 1) : s[y] # ","
         IN  <<SubSeq(s, 1, i - 1)>> \o SplitComma(SubSeq(s, i + 1, Len(s)))
    ELSE <<s>>

\* .map((s) => s.trim()).filter(Boolean)
byParts(g1) ==
    LET raw == SplitComma(g1)
        trimmed == [i \in 1..Len(raw) |-> Trim(raw[i])]
    IN  SelectSeq(trimmed, LAMBDA p : Len(p) > 0)

TenantWord == <<"t", "e", "n", "a", "n", "t">>

\* parts.join(", ")
RECURSIVE JoinParts(_)
JoinParts(parts) ==
    IF Len(parts) = 0 THEN <<>>
    ELSE IF Len(parts) = 1 THEN parts[1]
    ELSE parts[1] \o <<",", " ">> \o JoinParts(Tail(parts))

rewriteBy(c) ==
    IF \E i \in 1..Len(c) : ByMatchAt(c, i)
    THEN LET i == CHOOSE x \in 1..Len(c) :
                     ByMatchAt(c, x) /\ \A y \in 1..(x - 1) : ~ByMatchAt(c, y)
             j == SkipSpace(c, i + 3)
             k == CHOOSE x \in (j + 1)..Len(c) :
                     c[x] = "}" /\ \A y \in (j + 1)..(x - 1) : c[y] # "}"
             parts == byParts(SubSeq(c, j + 1, k - 1))
             out == IF \E n \in 1..Len(parts) : parts[n] = TenantWord
                    THEN parts ELSE Append(parts, TenantWord)
         IN  SubSeq(c, 1, i - 1) \o <<"b", "y", ":", "{">> \o JoinParts(out)
                \o <<"}">> \o SubSeq(c, k + 1, Len(c))
    ELSE c

addTenantToBy(txt) == IF txt.t = "text" THEN Text(rewriteBy(txt.c)) ELSE txt

(***************************************************************************)
(* mergeMultiTenant (multi-tenant.ts 103-192)                              *)
(***************************************************************************)
EmptyResponse ==
    Obj([records |-> Arr(<<>>), types |-> Arr(<<>>),
         metadata |-> EmptyObj, metrics |-> Arr(<<>>)])

\* faulty variant: ({ tenant, ...r }), the row's own tenant field wins
stampTenantRowWins(r, tenant) == Obj(Over([tenant |-> Str(tenant)], Spread(r)))

\* ({ ...r, tenant })
stampTenant(r, tenant) == Obj(Put(Spread(r), "tenant", Str(tenant)))

\* Normalize & inject tenant: one entry per response, records as a sequence
normalizeAll(resp) ==
    [i \in 1..Len(resp) |->
        LET n == normalize(resp[i].json)
        IN  [tenant |-> resp[i].tenant,
             records |-> [j \in 1..Len(n.records.a) |->
                             stampTenant(n.records.a[j], resp[i].tenant)],
             types |-> n.types,
             metadata |-> n.metadata,
             metrics |-> n.metrics]]

\* faulty variant: the tenants' records are put together last tenant first
allRecordsLastFirst(normalized) ==
    LET F[i \in 0..Len(normalized)] ==
          IF i = 0 THEN <<>> ELSE normalized[i].records \o F[i - 1]
    IN  F[Len(normalized)]

\* normalized.flatMap((n) => n.records)
allRecordsOf(normalized) ==
    LET F[i \in 0..Len(normalized)] ==
          IF i = 0 THEN <<>> ELSE F[i - 1] \o normalized[i].records
    IN  F[Len(normalized)]

\* types0 = deepClone(baseTypes0); types0.mappings = types0.mappings || {}
cloneTypes0(baseTypes0) ==
    LET c == deepClone(baseTypes0)
    IN  IF ~IsObject(c) THEN Raise("TypeError")
        ELSE Ok(SetProp(c, "mappings", Or(Get(c, "mappings"), EmptyObj)))

\* if (!types0?.mappings) types0.mappings = {};
\* if (!types0.mappings.tenant) types0.mappings.tenant = { type: "string" };
ensureTenantMapping(types0) ==
    LET t1 == IF ~Truthy(OptGet(types0, "mappings"))
              THEN SetProp(types0, "mappings", EmptyObj) ELSE types0
        m == Get(t1, "mappings")
    IN  IF Truthy(Get(m, "tenant")) THEN Ok(t1)
        ELSE IF ~IsObject(m) THEN Raise("TypeError")
        ELSE Ok(SetProp(t1, "mappings",
                        SetProp(m, "tenant", Obj([type |-> Str("string")]))))

\* Dynamic types (clone first tenant's types, or infer)
mergedTypes(normalized, allRecords) ==
    LET baseTypes0 == Index(normalized[1].types, 0)
        types0 == IF Truthy(baseTypes0) THEN cloneTypes0(baseTypes0)
                  ELSE Ok(Index(inferTypesFromRecord(
                             IF Len(allRecords) > 0 THEN allRecords[1] ELSE Undef), 0))
    IN  IF types0.ok THEN ensureTenantMapping(types0.value) ELSE types0

\* the four counters read from one tenant's metadata
tenantCounters(n) ==
    LET g == Or(OptGet(n.metadata, "grail"), EmptyObj)
    IN  [scannedRecords |-> ToNumber(Or(Get(g, "scannedRecords"), Num(0))),
         scannedBytes |-> ToNumber(Or(Get(g, "scannedBytes"), Num(0))),
         scannedDataPoints |-> ToNumber(Or(Get(g, "scannedDataPoints"), Num(0))),
         executionTimeMilliseconds |->
             ToNumber(Or(OptGet(n.metadata, "executionTimeMilliseconds"),
                         Or(Get(g, "executionTimeMilliseconds"), Num(0))))]

CounterNames ==
    {"scannedRecords", "scannedBytes", "scannedDataPoints", "executionTimeMilliseconds"}

\* `${counter}-${tag}`
tenantKey(counter, tag) == counter \o "-" \o tag

totalsOf(normalized) ==
    LET F[i \in 0..Len(normalized)] ==
          IF i = 0 THEN [c \in CounterNames |-> Num(0)]
          ELSE [c \in CounterNames |-> JsAdd(F[i - 1][c], tenantCounters(normalized[i])[c])]
    IN  F[Len(normalized)]

perTenantOf(normalized) ==
    LET F[i \in 0..Len(normalized)] ==
          IF i = 0 THEN EmptyMap
          ELSE Over(F[i - 1],
                    [k \in {tenantKey(c, normalized[i].tenant) : c \in CounterNames} |->
                        tenantCounters(normalized[i])[
                            CHOOSE c \in CounterNames :
                                tenantKey(c, normalized[i].tenant) = k]])
    IN  F[Len(normalized)]

\* normalized.map((n) => n.metadata?.grail?.timezone).find((z) => z && z !== "Z")
tzCandidateOf(normalized) ==
    LET z(i) == OptGet(OptGet(normalized[i].metadata, "grail"), "timezone")
        hit(i) == Truthy(z(i)) /\ z(i) # Str("Z")
    IN  IF \E i \in 1..Len(normalized) : hit(i)
        THEN z(CHOOSE i \in 1..Len(normalized) :
                    hit(i) /\ \A j \in 1..(i - 1) : ~hit(j))
        ELSE Undef

\* faulty variant: baseGrail.timezone || tzCandidate || "Z"
resolveTimezoneBaseFirst(tzCandidate, baseGrail) ==
    Or(Or(Get(baseGrail, "timezone"), tzCandidate), Str("Z"))

\* timezone: tzCandidate || baseGrail.timezone || "Z"
resolveTimezone(tzCandidate, baseGrail) ==
    Or(Or(tzCandidate, Get(baseGrail, "timezone")), Str("Z"))

\* faulty variant: ...(widened.grail || {}) spread last, over the totals and breakdowns
mergedGrailBaseLast(widenedGrail, timezone, totals, perTenant) ==
    Over(Over([timezone |-> timezone,
               scannedRecords |-> totals["scannedRecords"],
               scannedBytes |-> totals["scannedBytes"],
               scannedDataPoints |-> totals["scannedDataPoints"]],
              perTenant),
         Spread(widenedGrail))

\* the grail object literal of the merged metadata
mergedGrail(widenedGrail, timezone, totals, perTenant) ==
    Over(Over(Spread(widenedGrail),
              [timezone |-> timezone,
               scannedRecords |-> totals["scannedRecords"],
               scannedBytes |-> totals["scannedBytes"],
               scannedDataPoints |-> totals["scannedDataPoints"]]),
         perTenant)

\* Ensure BY clause text reflects tenant
rewriteQueries(grail) ==
    Put(Put(grail, "canonicalQuery", addTenantToBy(Get(Obj(grail), "canonicalQuery"))),
        "query", addTenantToBy(Get(Obj(grail), "query")))

mergedMetadata(normalized, widened) ==
    LET baseMeta == Or(normalized[1].metadata, EmptyObj)
        baseGrail == Or(Get(baseMeta, "grail"), EmptyObj)
        totals == totalsOf(normalized)
        grail == mergedGrail(Or(Get(widened, "grail"), EmptyObj),
                             resolveTimezone(tzCandidateOf(normalized), baseGrail),
                             totals, perTenantOf(normalized))
    IN  Obj(Put(Put(Spread(widened), "grail", Obj(rewriteQueries(grail))),
                "executionTimeMilliseconds", totals["executionTimeMilliseconds"]))

mergeMultiTenant(resp) ==
    IF Len(resp) = 0 THEN Ok(EmptyResponse)
    ELSE LET normalized == normalizeAll(resp)
             allRecords == allRecordsOf(normalized)
             types0 == mergedTypes(normalized, allRecords)
             widened == globalTimeframe(allRecords, Or(normalized[1].metadata, EmptyObj))
         IN  IF ~types0.ok THEN types0
             ELSE IF ~widened.ok THEN widened
             ELSE Ok(Obj([records |-> Arr(allRecords),
                          types |-> Arr(<<types0.value>>),
                          metadata |-> mergedMetadata(normalized, widened.value),
                          metrics |-> normalized[1].metrics]))

(***************************************************************************)
(* The second copy of the merger (multi-tenant.ts 234-377)                 *)
(***************************************************************************)
normalizeResult(json) ==
    LET res == Coalesce(OptGet(json, "result"), json)
    IN  [records |-> asArray(OptGet(res, "records")),
         types |-> asArray(OptGet(res, "types")),
         metadata |-> Coalesce(Coalesce(OptGet(res, "metadata"),
                                        OptGet(json, "metadata")), EmptyObj),
         metrics |-> asArray(Coalesce(OptGet(res, "metrics"), OptGet(json, "metrics")))]

timeframeOfRecord(rec) ==
    [start |-> parseTs(OptGet(OptGet(rec, "timeframe"), "start")),
     end |-> parseTs(OptGet(OptGet(rec, "timeframe"), "end"))]

widenAnalysisTimeframe(records, baseMeta) ==
    LET S[i \in 0..Len(records)] ==
          IF i = 0 THEN PosInf
          ELSE IF IsFinite(timeframeOfRecord(records[i]).start)
               THEN JsMin(S[i - 1], timeframeOfRecord(records[i]).start) ELSE S[i - 1]
        E[i \in 0..Len(records)] ==
          IF i = 0 THEN NegInf
          ELSE IF IsFinite(timeframeOfRecord(records[i]).end)
               THEN JsMax(E[i - 1], timeframeOfRecord(records[i]).end) ELSE E[i - 1]
        minS == S[Len(records)]
        maxE == E[Len(records)]
        computed == IsFinite(minS) /\ IsFinite(maxE)
        tf == IF computed
              THEN Obj([start |-> toISOString(minS.n), end |-> toISOString(maxE.n)])
              ELSE Coalesce(OptGet(OptGet(baseMeta, "grail"), "analysisTimeframe"),
                            OptGet(baseMeta, "analysisTimeframe"))
    IN  IF computed /\ (IsoRaises(minS.n) \/ IsoRaises(maxE.n))
        THEN Raise("RangeError")
        ELSE Ok(Obj(Put(Put(Spread(baseMeta), "grail",
                            Obj(Put(Spread(Coalesce(OptGet(baseMeta, "grail"), EmptyObj)),
                                    "analysisTimeframe", tf))),
                        "analysisTimeframe", Undef)))

\* Clone types[0] and add tenant mapping
mergedTypesV2(base) ==
    LET baseTypes == asArray(base.types)
        t0 == IF Truthy(Index(baseTypes, 0)) THEN deepClone(Index(baseTypes, 0))
              ELSE Obj([indexRange |-> Arr(<<Num(0), Num(0)>>), mappings |-> EmptyObj])
    IN  IF ~IsObject(t0) THEN Raise("TypeError")
        ELSE LET t1 == SetProp(t0, "mappings", Or(Get(t0, "mappings"), EmptyObj))
                 m == Get(t1, "mappings")
             IN  IF ~IsObject(m) THEN Raise("TypeError")
                 ELSE Ok(SetProp(t1, "mappings",
                                 SetProp(m, "tenant", Obj([type |-> Str("string")]))))

mergeMultiTenantV2(resp) ==
    IF Len(resp) = 0 THEN Ok(EmptyResponse)
    ELSE LET normalized ==
               [i \in 1..Len(resp) |->
                  LET n == normalizeResult(resp[i].json)
                  IN  [tenant |-> resp[i].tenant,
                       records |-> [j \in 1..Len(n.records.a) |->
                                       stampTenant(n.records.a[j], resp[i].tenant)],
                       types |-> n.types,
                       metadata |-> n.metadata,
                       metrics |-> n.metrics]]
             allRecords == allRecordsOf(normalized)
             base == normalized[1]
             t0 == mergedTypesV2(base)
             D[i \in 0..Len(normalized)] ==
               IF i = 0 THEN Num(0)
               ELSE JsAdd(D[i - 1],
                          ToNumber(Or(OptGet(OptGet(normalized[i].metadata, "grail"),
                                             "scannedDataPoints"), Num(0))))
             baseGrail == OptGet(base.metadata, "grail")
             metadata == widenAnalysisTimeframe(allRecords,
                Obj(Put(Spread(base.metadata), "grail",
                        Obj(Put(Spread(Coalesce(baseGrail, EmptyObj)), "scannedDataPoints",
                                Or(D[Len(normalized)],
                                   OptGet(baseGrail, "scannedDataPoints")))))))
         IN  IF ~t0.ok THEN t0
             ELSE IF ~metadata.ok THEN metadata
             ELSE Ok(Obj([records |-> Arr(allRecords),
                          types |-> Arr(<<t0.value>>),
                          metadata |-> metadata.value,
                          metrics |-> base.metrics]))

(***************************************************************************)
(* Inputs of the merger: bounded families of {tenant, json} sequences.     *)
(* Every payload is a decoded JSON value (what res.json() can deliver).    *)
(***************************************************************************)
TenantName(i) == CASE i = 1 -> "A" [] i = 2 -> "B" [] i = 3 -> "C" [] OTHER -> "D"

\* tenant i answers under a "result" envelope or bare, depending on flag
Envelope(flag, i, p) == IF (i % 2 = 1) = flag THEN Obj([result |-> p]) ELSE p

RowSeqs(S) == UNION {[1..k -> S] : k \in 0..MaxRows}

\* the rows of flat that belong to tenant i under the (monotone) assignment o
Owners(k, n) == {o \in [1..k -> 1..n] : \A a, b \in 1..k : a < b => o[a] <= o[b]}
RowsOwned(flat, o, i) ==
    LET idx == {j \in 1..Len(flat) : o[j] = i}
    IN  IF idx = {} THEN <<>>
        ELSE SubSeq(flat, CHOOSE j \in idx : \A x \in idx : j <= x,
                          CHOOSE j \in idx : \A x \in idx : j >= x)

\* ---- rows of any shape, some already carrying a tenant field
RowShapes ==
    {Obj([host |-> Str("x")]),
     Obj([host |-> Str("x"), tenant |-> Str("x")]),
     Obj([tenant |-> Num(7), values |-> Arr(<<Null, Num(7)>>)]),
     Null, Str("x"), Arr(<<Str("x")>>)}

\* tenant i's entry of an input that hands the rows of flat to n tenants
\* under the assignment o, its payload being Mk(i, its rows)
Handed(n, flat, o, Mk(_, _)) ==
    [i \in 1..n |-> [tenant |-> TenantName(i), json |-> Mk(i, RowsOwned(flat, o, i))]]

InputsRows(resp) ==
    \E n \in 1..MaxTenants, flag \in BOOLEAN, flat \in RowSeqs(RowShapes) :
      \E o \in Owners(Len(flat), n) :
        resp = Handed(n, flat, o,
                      LAMBDA i, rows : Envelope(flag, i, Obj([records |-> Arr(rows)])))

\* ---- rows with a timeframe; every tenant's metadata has an
\* ---- analysisTimeframe of its own
TimeframeShapes ==
    {Undef,
     Obj([start |-> Null, end |-> Null]),
     Obj([start |-> Str("n/a"), end |-> Str("n/a")]),
     Obj([start |-> Num(MaxTs)]),
     Obj([end |-> Num(0)]),
     Obj([start |-> TStr(MaxTs, 0), end |-> TStr(MaxTs, 0 - 1)])}
    \cup {Obj([start |-> Num(a), end |-> Num(a)]) : a \in 0..MaxTs}

TimeRows ==
    {IF tf = Undef THEN Obj([host |-> Str("x")]) ELSE Obj([timeframe |-> tf]) :
        tf \in TimeframeShapes}

OriginalTimeframe(i) ==
    Obj([start |-> TStr(i, 0), end |-> TStr(i, 0)])

InputsTime(resp) ==
    \E n \in 1..MaxTenants, flat \in RowSeqs(TimeRows) :
      \E o \in Owners(Len(flat), n) :
        resp = Handed(n, flat, o,
                      LAMBDA i, rows :
                        Envelope(TRUE, i,
                                 Obj([records |-> Arr(rows),
                                      metadata |-> Obj([grail |-> Obj([
                                          analysisTimeframe |-> OriginalTimeframe(i)])])])))

\* ---- type descriptors of every shape in the first tenant's payload
Descriptors ==
    {EmptyObj,
     Obj([indexRange |-> Arr(<<Num(0), Num(1)>>),
          mappings |-> Obj([host |-> Obj([type |-> Str("string")])])]),
     Obj([mappings |-> Obj([tenant |-> Obj([type |-> Str("string")])])]),
     Obj([mappings |-> Obj([tenant |-> Obj([type |-> Str("double")])])]),
     Obj([mappings |-> Obj([tenant |-> Null])]),
     Obj([mappings |-> Null]),
     Obj([mappings |-> Str("x")]),
     Obj([mappings |-> Num(7)]),
     Obj([mappings |-> Arr(<<>>)])}

TypesFacets ==
    {Undef, Null, Str("x"), Str(""), Num(7), Num(0), Bool(TRUE), Arr(<<>>),
     Arr(<<Null>>), Arr(<<Str("x")>>), Arr(<<Num(7)>>), Arr(<<Arr(<<>>)>>)}
    \cup Descriptors
    \cup {Arr(<<d>>) : d \in Descriptors}
    \cup {Arr(<<d, EmptyObj>>) : d \in Descriptors}

WithFacet(o, k, v) == IF v = Undef THEN o ELSE Put(o, k, v)

SampleRows ==
    {<<>>, <<Obj([host |-> Str("x")])>>,
     <<Obj([timeframe |-> Obj([start |-> Num(0), end |-> Num(1)]),
            interval |-> Str("7"),
            values |-> Arr(<<Null, Num(7)>>)])>>}

InputsTypes(resp) ==
    \E n \in 1..MaxTenants, ty \in TypesFacets, rows \in SampleRows :
       resp = [i \in 1..n |->
                 [tenant |-> TenantName(i),
                  json |-> Envelope(TRUE, i,
                             Obj(WithFacet([records |-> Arr(rows)], "types",
                                           IF i = 1 THEN ty
                                           ELSE Obj([mappings |-> Obj([other |->
                                                  Obj([type |-> Str("long")])])]))))]]

\* ---- payloads that are not a result object at all, or whose facets are
\* ---- null, scalars or of the wrong kind
OddPayloads ==
    {Null, Str("x"), Num(7), Bool(FALSE), Arr(<<>>), EmptyObj,
     Obj([result |-> Null]), Obj([result |-> Str("x")]),
     Obj([result |-> Null, records |-> Arr(<<EmptyObj>>)]),
     Obj([records |-> Obj([host |-> Str("x")])]),
     Obj([records |-> Null]), Obj([records |-> Num(0)]), Obj([records |-> Str("x")]),
     Obj([metadata |-> Null]), Obj([metadata |-> Str("x")]), Obj([metadata |-> Num(0)]),
     Obj([metadata |-> Arr(<<>>)]),
     Obj([metadata |-> Obj([grail |-> Null])]),
     Obj([metadata |-> Obj([grail |-> Str("x")])]),
     Obj([metadata |-> Obj([grail |-> Num(7)])]),
     Obj([metrics |-> Null]), Obj([metrics |-> Str("x")]),
     Obj([metrics |-> Arr(<<Obj([name |-> Str("x")])>>)]),
     Obj([records |-> Arr(<<Obj([timeframe |-> Null])>>)]),
     Obj([records |-> Arr(<<Obj([timeframe |-> Obj([start |-> Num(HugeMs),
                                                      end |-> Num(HugeMs)])])>>)])}

\* one odd payload, at any position among unremarkable ones
InputsOdd(resp) ==
    \E n \in 1..MaxTenants, p \in OddPayloads :
      \E at \in 1..n :
        resp = [i \in 1..n |->
                  [tenant |-> TenantName(i),
                   json |-> IF i = at THEN p
                            ELSE Obj([records |-> Arr(<<Obj([host |-> Str("x")])>>)])]]

\* ---- execution statistics: counters of every kind, stale breakdown keys in
\* ---- the first tenant's grail, repeated tenant names
ByText == Text(<<"f", " ", "b", "y", ":", " ", "{", " ", "h", " ", "}", " ", "|">>)

StaleKeys ==
    [k \in {tenantKey(c, t) : c \in CounterNames, t \in {"A", "B"}} |-> Num(9)]

\* all four counters numeric and different from one another
NumericProfiles ==
    {[metadata |-> Obj([grail |-> Obj([scannedRecords |-> Num(c),
                                       scannedBytes |-> Num(c + 1),
                                       scannedDataPoints |-> Num(c + 2)]),
                        executionTimeMilliseconds |-> Num(c + 3)])] :
        c \in 0..MaxCounter}

\* a counter that is missing or not a number
BrokenProfiles ==
    {[metadata |-> Obj([grail |-> Obj(WithFacet([scannedBytes |-> Num(2),
                                                 scannedDataPoints |-> v],
                                                "scannedRecords", v)),
                        executionTimeMilliseconds |-> Num(4)])] :
        v \in {Undef, Null, Str("n/a"), Str("7"), EmptyObj}}

\* the execution time at top level, under grail, or both
ExecutionTimeProfiles ==
    {[metadata |-> Obj(WithFacet(
                     [grail |-> Obj(WithFacet([scannedRecords |-> Num(1),
                                               scannedBytes |-> Num(1),
                                               scannedDataPoints |-> Num(1)],
                                              "executionTimeMilliseconds", g))],
                     "executionTimeMilliseconds", top))] :
        top \in {Undef, Str("n/a"), Num(0), Num(MaxCounter)}, g \in {Undef, Num(1)}}

Profiles == NumericProfiles \cup BrokenProfiles \cup ExecutionTimeProfiles

InputsCounters(resp) ==
    \E n \in 1..MaxTenants, mode \in {"plain", "stale", "dup"} :
      \E f \in [1..n -> Profiles] :
        resp = [i \in 1..n |->
                  [tenant |-> IF mode = "dup" THEN "A" ELSE TenantName(i),
                   json |-> IF i = 1 /\ mode = "stale"
                            THEN Obj([metadata |-> Obj(Put(f[i].metadata.o, "grail",
                                        Obj(Over(Over(f[i].metadata.o.grail.o, StaleKeys),
                                                 [query |-> ByText,
                                                  canonicalQuery |-> ByText]))))])
                            ELSE Obj(f[i])]]

\* ---- timezones
TimezoneFacets ==
    {Undef, EmptyObj}
    \cup {Obj([grail |-> Obj(WithFacet([scannedRecords |-> Num(1)], "timezone", z))]) :
             z \in {Undef, Null, Str(""), Str("Z"), Str("-04:00"), Str("+02:00")}}

InputsTimezones(resp) ==
    \E n \in 1..MaxTenants :
      \E f \in [1..n -> TimezoneFacets] :
        resp = [i \in 1..n |->
                  [tenant |-> TenantName(i),
                   json |-> Obj(WithFacet([records |-> Arr(<<>>)], "metadata", f[i]))]]

(***************************************************************************)
(* The merger applied to one input.                                        *)
(***************************************************************************)
NoResult == [ok |-> FALSE, error |-> "not called", value |-> Undef]
NoConfig == [tenantVar |-> Undef, credentialId |-> Str(""), query |-> Str("")]

merge(v, resp) == IF v = 1 THEN mergeMultiTenant(resp) ELSE mergeMultiTenantV2(resp)

Init ==
    /\ \/ /\ variant \in {1, 2}
          /\ \/ responses = <<>>
             \/ InputsRows(responses)
             \/ InputsTime(responses)
             \/ InputsTypes(responses)
       \/ /\ variant = 1
          /\ \/ InputsOdd(responses)
             \/ InputsCounters(responses)
             \/ InputsTimezones(responses)
    /\ result = NoResult
    /\ pc = "call"
    /\ cfg = NoConfig
    /\ fetches = <<>>
    /\ ret = NoResult
    /\ heap = EmptyMap

\* the merger is called and returns or raises; the objects of the caller it
\* wrote to are updated in the store
MergeCall ==
    /\ pc = "call"
    /\ result' = merge(variant, responses)
    /\ heap' = IF result'.ok THEN written(heap, result'.value) ELSE heap
    /\ pc' = "returned"
    /\ UNCHANGED <<variant, responses, cfg, fetches, ret>>

Next == MergeCall

Spec == Init /\ [][Next]_vars

(***************************************************************************)
(* Properties of the merger.                                               *)
(***************************************************************************)
Returned == pc = "returned" /\ result.ok
Out == result.value.o
OutRecords == Out.records.a
OutGrail == Get(Out.metadata, "grail")

\* what the running copy's normalizer makes of tenant i's payload
Normalized(i) ==
    IF variant = 1 THEN normalize(responses[i].json) ELSE normalizeResult(responses[i].json)
RawRows(i) == Normalized(i).records.a
\* the number of records contributed by the tenants before tenant i
Offset(i) ==
    LET F[k \in 0..(i - 1)] == IF k = 0 THEN 0 ELSE F[k - 1] + Len(RawRows(k))
    IN  F[i - 1]
Positions == {<<i, j>> : i \in 1..Len(responses), j \in 1..MaxRows + 1}
Cells == {p \in Positions : p[2] <= Len(RawRows(p[1]))}

\* out is raw with nothing but the tenant field touched
SameRow(out, raw) ==
    /\ out.t = "obj"
    /\ DOMAIN out.o \ {"tenant"} = DOMAIN Spread(raw) \ {"tenant"}
    /\ \A k \in DOMAIN Spread(raw) \ {"tenant"} : out.o[k] = Spread(raw)[k]

\* C1: the merged records are the tenants' normalized records, tenant after
\* tenant in input order and in each tenant's own order: none dropped,
\* duplicated, reordered or interleaved, so the length is the sum of the lengths
C1_RecordsConcatenated ==
    Returned =>
        /\ Len(OutRecords) = Offset(Len(responses) + 1)
        /\ \A p \in Cells : SameRow(OutRecords[Offset(p[1]) + p[2]], RawRows(p[1])[p[2]])

C1_Witness ==
    /\ Returned /\ Len(responses) >= 2
    /\ Len(RawRows(1)) >= 1 /\ Len(RawRows(2)) >= 1
    /\ ~SameRow(OutRecords[1], RawRows(2)[1])

\* C2: every merged record carries the identifier of the input entry that
\* contributed it, also when the row had a tenant field of its own, and every
\* other field of the row keeps its value
C2_TenantStamped ==
    Returned =>
        \A p \in Cells :
            LET r == OutRecords[Offset(p[1]) + p[2]]
                raw == RawRows(p[1])[p[2]]
            IN  /\ Get(r, "tenant") = Str(responses[p[1]].tenant)
                /\ raw.t = "obj" =>
                     \A k \in DOMAIN raw.o \ {"tenant"} : Get(r, k) = raw.o[k]

C2_Witness ==
    /\ Returned
    /\ \E p \in Cells :
          /\ RawRows(p[1])[p[2]].t = "obj"
          /\ "tenant" \in DOMAIN RawRows(p[1])[p[2]].o
          /\ RawRows(p[1])[p[2]].o.tenant # Str(responses[p[1]].tenant)
          /\ Cardinality(DOMAIN RawRows(p[1])[p[2]].o) > 1

\* C3: for a non-empty input the merged types hold exactly one descriptor,
\* whose mappings.tenant is {type: "string"}, whatever the source descriptor held
C3_TenantMappingIsString ==
    (Returned /\ Len(responses) > 0) =>
        /\ Len(Out.types.a) = 1
        /\ Get(Get(Out.types.a[1], "mappings"), "tenant") = Obj([type |-> Str("string")])

GrailOf(i) == OptGet(Normalized(i).metadata, "grail")
GrailCounters == CounterNames \ {"executionTimeMilliseconds"}
\* the execution times tenant i states: at top level, under grail, or both
StatedTimes(i) ==
    {OptGet(Normalized(i).metadata, "executionTimeMilliseconds"),
     OptGet(GrailOf(i), "executionTimeMilliseconds")} \ {Undef}
\* every counter of tenant i is stated, and stated as a number
NumericCounters(i) ==
    /\ \A c \in GrailCounters : OptGet(GrailOf(i), c).t = "num"
    /\ StatedTimes(i) # {}
    /\ \A v \in StatedTimes(i) : v.t = "num"
SumOwn(c) ==
    LET F[k \in 0..Len(responses)] ==
          IF k = 0 THEN 0 ELSE F[k - 1] + OptGet(GrailOf(k), c).n
    IN  F[Len(responses)]
SumTimes ==
    LET F[k \in 0..Len(responses)] ==
          IF k = 0 THEN 0
          ELSE F[k - 1]
                 + OutGrail.o["executionTimeMilliseconds" \o "-" \o responses[k].tenant].n
    IN  F[Len(responses)]
DistinctTenants ==
    \A a, b \in 1..Len(responses) : a # b => responses[a].tenant # responses[b].tenant

\* C4: with distinct tenant identifiers and numeric counters the merged
\* metadata holds at once (a) the totals, scannedRecords, scannedBytes and
\* scannedDataPoints under grail and executionTimeMilliseconds at top level,
\* each the sum of the tenants' values, and (b) for every tenant and counter
\* the key <counter>-<tenant> under grail, holding that tenant's own value:
\* the number its grail states, and for the execution time a number the tenant
\* states (which of two stated execution times counts is not settled here)
C4_TotalsAndBreakdowns ==
    (Returned /\ variant = 1 /\ Len(responses) > 0 /\ DistinctTenants
       /\ \A i \in 1..Len(responses) : NumericCounters(i)) =>
        /\ \A i \in 1..Len(responses) : \A c \in CounterNames :
              (c \o "-" \o responses[i].tenant) \in DOMAIN OutGrail.o
        /\ \A i \in 1..Len(responses) : \A c \in GrailCounters :
              OutGrail.o[c \o "-" \o responses[i].tenant] = OptGet(GrailOf(i), c)
        /\ \A i \in 1..Len(responses) :
              OutGrail.o["executionTimeMilliseconds" \o "-" \o responses[i].tenant]
                 \in StatedTimes(i)
        /\ \A c \in GrailCounters : Get(OutGrail, c) = Num(SumOwn(c))
        /\ Get(Out.metadata, "executionTimeMilliseconds") = Num(SumTimes)

C4_Witness ==
    /\ Returned /\ variant = 1 /\ Len(responses) = 2 /\ DistinctTenants
    /\ \A i \in 1..Len(responses) : NumericCounters(i)
    /\ "scannedRecords-B" \in DOMAIN GrailOf(1).o
    /\ OptGet(GrailOf(2), "scannedRecords").n > 0
    /\ Get(OutGrail, "scannedRecords") # OptGet(GrailOf(1), "scannedRecords")
    /\ Get(OutGrail, "scannedRecords-A") # Get(OutGrail, "scannedRecords-B")
    /\ Get(OutGrail, "scannedRecords-B") # GrailOf(1).o["scannedRecords-B"]
    /\ Get(Out.metadata, "executionTimeMilliseconds").n > 0

\* the parsed timeframe markers of the input rows
StartOf(raw) == parseTs(OptGet(OptGet(raw, "timeframe"), "start"))
EndOf(raw) == parseTs(OptGet(OptGet(raw, "timeframe"), "end"))
FiniteStarts == {StartOf(RawRows(p[1])[p[2]]).n :
                    p \in {q \in Cells : IsFinite(StartOf(RawRows(q[1])[q[2]]))}}
FiniteEnds == {EndOf(RawRows(p[1])[p[2]]).n :
                  p \in {q \in Cells : IsFinite(EndOf(RawRows(q[1])[q[2]]))}}
Least(S) == CHOOSE x \in S : \A y \in S : x <= y
Greatest(S) == CHOOSE x \in S : \A y \in S : x >= y
OriginalOfFirst == OptGet(GrailOf(1), "analysisTimeframe")

\* C5: when some record has a finite parsed start and some record a finite
\* parsed end, the merged analysisTimeframe runs from the least start to the
\* greatest end over the records of all tenants, as ISO timestamps in UTC,
\* whatever the first tenant's own analysisTimeframe was
C5_TimeframeUnion ==
    (Returned /\ FiniteStarts # {} /\ FiniteEnds # {}) =>
        Get(OutGrail, "analysisTimeframe")
            = Obj([start |-> TStr(Least(FiniteStarts), 0),
                   end |-> TStr(Greatest(FiniteEnds), 0)])

C5_Witness ==
    /\ Returned /\ variant = 1 /\ Len(responses) = 2
    /\ FiniteStarts # {} /\ FiniteEnds # {}
    /\ Len(RawRows(1)) = 1 /\ Len(RawRows(2)) = 1
    /\ IsFinite(StartOf(RawRows(1)[1])) /\ IsFinite(StartOf(RawRows(2)[1]))
    /\ StartOf(RawRows(2)[1]).n < StartOf(RawRows(1)[1]).n
    /\ IsFinite(EndOf(RawRows(1)[1]))
    /\ Greatest(FiniteEnds) = EndOf(RawRows(1)[1]).n
    /\ OriginalOfFirst # Undef
    /\ Get(OutGrail, "analysisTimeframe") # OriginalOfFirst

\* a marker the claim counts as not parseable: absent, null, or a string that
\* is no timestamp
NotParseable(m) == m.t \in {"undef", "null", "str"}
NoParseableTimeframe ==
    \A p \in Cells :
        LET tf == OptGet(RawRows(p[1])[p[2]], "timeframe")
        IN  Nullish(tf) \/ (NotParseable(OptGet(tf, "start")) /\ NotParseable(OptGet(tf, "end")))

\* C6: when no record has a parseable timeframe the merged analysisTimeframe
\* is the first tenant's original value
C6_TimeframeFallback ==
    (Returned /\ Len(responses) > 0 /\ NoParseableTimeframe) =>
        Get(OutGrail, "analysisTimeframe") = OriginalOfFirst

\* the timezone tenant i reports; it is present when it is a non-empty value
Reported(i) == OptGet(GrailOf(i), "timezone")
Present(z) == Truthy(z)
Preferred == {i \in 1..Len(responses) : Present(Reported(i)) /\ Reported(i) # Str("Z")}

\* C7: the merged timezone is that of the first tenant in input order whose
\* timezone is present and not "Z"; failing that the first tenant's timezone
\* if present; failing that "Z"
C7_TimezoneResolved ==
    (Returned /\ variant = 1 /\ Len(responses) > 0) =>
        Get(OutGrail, "timezone")
            = IF Preferred # {} THEN Reported(Least(Preferred))
              ELSE IF Present(Reported(1)) THEN Reported(1)
              ELSE Str("Z")

C7_Witness ==
    /\ Returned /\ variant = 1 /\ Len(responses) = 2
    /\ Reported(1) = Str("Z") /\ Reported(2) = Str("-04:00")
    /\ Get(OutGrail, "timezone") = Str("-04:00")

\* C9: the merger returns a response for every input and never raises
C9_MergeNeverRaises == pc = "returned" => result.ok

(***************************************************************************)
(* The top-level operation (multi-tenant.ts 195-232 and 380-432): the      *)
(* tenants are resolved, one fetch per target is started, the fetches      *)
(* advance independently, and the operation continues when the join of the *)
(* fetches settles.                                                        *)
(***************************************************************************)
\* tenant name -> query endpoint
tenantMap(v) ==
    IF v = 1 THEN [prod |-> Str("urlA"), qa |-> Str("urlB")]
    ELSE [prod |-> Str("urlX"), dev |-> Str("urlY")]
\* Object.keys(tenantMap)
tenantKeys(v) == IF v = 1 THEN <<Str("prod"), Str("qa")>> ELSE <<Str("prod"), Str("dev")>>

\* ($tenant && asArray($tenant)) || Object.keys(tenantMap) in the first copy,
\* asArray($tenant || Object.keys(tenantMap)) in the second
selected(v, tenantVar) ==
    IF v = 1
    THEN (IF Truthy(tenantVar) THEN asArray(tenantVar) ELSE Arr(tenantKeys(v))).a
    ELSE asArray(Or(tenantVar, Arr(tenantKeys(v)))).a

\* selected.map((name) => ({tenant: name, url: tenantMap[name]})).filter((t) => t.url)
targets(v, tenantVar) ==
    LET named == [i \in 1..Len(selected(v, tenantVar)) |->
                    LET name == selected(v, tenantVar)[i].s
                    IN  [tenant |-> name,
                         url |-> IF name \in DOMAIN tenantMap(v)
                                 THEN tenantMap(v)[name] ELSE Undef]]
    IN  SelectSeq(named, LAMBDA t : Truthy(t.url))

\* if (!credentialId || !url || !query) throw
argumentsMissing(credentialId, url, query) ==
    ~Truthy(credentialId) \/ ~Truthy(url) \/ ~Truthy(query)

\* faulty variant: the join waits for every fetch to settle and succeeds with the
\* fetches that were fulfilled
PromiseAllSettled(fs) ==
    IF \A i \in 1..Len(fs) : fs[i].at \in {"fulfilled", "rejected"}
    THEN "fulfilled" ELSE "pending"

\* Promise.all(targets.map(...)): rejected as soon as one fetch is rejected,
\* fulfilled once every fetch is
PromiseAll(fs) ==
    IF \E i \in 1..Len(fs) : fs[i].at = "rejected" THEN "rejected"
    ELSE IF \A i \in 1..Len(fs) : fs[i].at = "fulfilled" THEN "fulfilled"
    ELSE "pending"

\* faulty variant: the values are collected as the fetches complete
fetchedAsCompleted(fs) ==
    LET done == SelectSeq(fs, LAMBDA f : f.at = "fulfilled")
        nth(k) == CHOOSE i \in 1..Len(done) :
                     Cardinality({j \in 1..Len(done) : done[j].order <= done[i].order}) = k
    IN  [k \in 1..Len(done) |-> [tenant |-> done[nth(k)].tenant, json |-> done[nth(k)].json]]

\* the values the join hands over: { tenant, json } of the fulfilled fetches,
\* in the order of the targets
fetchedOf(fs) ==
    LET done == SelectSeq(fs, LAMBDA f : f.at = "fulfilled")
    IN  [i \in 1..Len(done) |-> [tenant |-> done[i].tenant, json |-> done[i].json]]

\* the by-clause pattern of the second copy's main: case-sensitive
ByMatchAtV2(c, i) == ByMatchAt(c, i) /\ c[i] = "b" /\ c[i + 1] = "y"

\* c.replace(pattern, ...): g1 trimmed, ", tenant" appended (or tenant alone)
replaceByV2(c, open, close) ==
    IF \E i \in 1..Len(c) : ByMatchAtV2(c, i)
    THEN LET i == CHOOSE x \in 1..Len(c) :
                     ByMatchAtV2(c, x) /\ \A y \in 1..(x - 1) : ~ByMatchAtV2(c, y)
             j == SkipSpace(c, i + 3)
             k == CHOOSE x \in (j + 1)..Len(c) :
                     c[x] = "}" /\ \A y \in (j + 1)..(x - 1) : c[y] # "}"
             g1 == Trim(SubSeq(c, j + 1, k - 1))
         IN  SubSeq(c, 1, i - 1) \o open
                \o (IF Len(g1) > 0 THEN g1 \o <<",", " ">> \o TenantWord ELSE TenantWord)
                \o close \o SubSeq(c, k + 1, Len(c))
    ELSE c

\* the second copy's main after the merge: canonicalQuery and query rewritten
\* from merged.metadata.grail or the configured query; .replace on a value
\* that is no string raises
documentTenant(merged, query) ==
    LET md == Get(merged, "metadata")
        grail == OptGet(md, "grail")
        q == Or(OptGet(grail, "query"), query)
        cq == Or(OptGet(grail, "canonicalQuery"), q)
        rw(x, open, close) == IF x.t = "text" THEN Text(replaceByV2(x.c, open, close)) ELSE x
    IN  IF ~IsObject(md) \/ ~IsString(q) \/ ~IsString(cq) THEN Raise("TypeError")
        ELSE Ok(SetProp(merged, "metadata",
                  SetProp(md, "grail",
                    Obj(Put(Put(Spread(Or(grail, EmptyObj)), "canonicalQuery",
                                rw(cq, <<"b", "y", ":", "{">>, <<"}">>)),
                            "query",
                            rw(q, <<"b", "y", ":", " ", "{", " ">>, <<" ", "}">>))))))

\* what the operation returns once the merger has run: the merged result, or
\* the canonical empty response when anything inside the try block raised
returned(v, merged, query) ==
    IF ~merged.ok THEN Ok(EmptyResponse)
    ELSE IF v = 1 THEN merged
    ELSE IF documentTenant(merged.value, query).ok
         THEN documentTenant(merged.value, query)
    ELSE Ok(EmptyResponse)

\* what the dashboard variable, the credential id and the query can be
TenantSelections ==
    {Undef, Str(""), Str("prod"), Str("zz"), Arr(<<>>),
     Arr(<<Str("qa"), Str("prod")>>), Arr(<<Str("dev"), Str("prod")>>)}
Configs ==
    [tenantVar : TenantSelections,
     credentialId : {Str("CREDENTIALS_VAULT-X"), Str("")},
     query : {ByText, Str("")}]

\* what a tenant's endpoint can answer
Bodies ==
    {Obj([result |-> Obj([records |-> Arr(<<Obj([host |-> Str("x")])>>),
                          metadata |-> Obj([grail |-> Obj([query |-> ByText,
                                                            canonicalQuery |-> ByText])])])]),
     Obj([records |-> Arr(<<Obj([host |-> Str("x")]), Obj([host |-> Str("Z")])>>)]),
     Obj([records |-> Arr(<<>>), types |-> Str("x")]),
     Obj([records |-> Arr(<<>>),
          metadata |-> Obj([grail |-> Obj([query |-> Num(7)])])])}

InitMain ==
    /\ variant \in {1, 2}
    /\ cfg \in Configs
    /\ responses = <<>>
    /\ result = NoResult
    /\ pc = "main"
    /\ fetches = <<>>
    /\ ret = NoResult
    /\ heap = EmptyMap

\* the operation up to its first suspension: targets resolved, one fetch
\* started per target, each of them rejected at once when an argument is
\* missing and waiting for its token otherwise
MainStart ==
    /\ pc = "main"
    /\ LET ts == targets(variant, cfg.tenantVar)
       IN  IF Len(ts) = 0
           THEN /\ pc' = "thrown"
                /\ ret' = Raise("Error")
                /\ UNCHANGED fetches
           ELSE /\ pc' = "joining"
                /\ fetches' = [i \in 1..Len(ts) |->
                                 [tenant |-> ts[i].tenant,
                                  url |-> ts[i].url,
                                  at |-> IF argumentsMissing(cfg.credentialId, ts[i].url,
                                                             cfg.query)
                                         THEN "rejected" ELSE "token",
                                  json |-> Undef,
                                  order |-> 0]]
                /\ UNCHANGED ret
    /\ UNCHANGED <<variant, responses, result, cfg, heap>>

\* how many fetches have delivered their payload so far
completed(fs) == Cardinality({i \in 1..Len(fs) : fs[i].at = "fulfilled"})

\* the vault answers fetch i: a token, no token, or an error
TokenArrives(i) ==
    /\ fetches[i].at = "token"
    /\ \E outcome \in {"token", "empty", "error"} :
          fetches' = [fetches EXCEPT ![i].at = IF outcome = "token" THEN "http"
                                               ELSE "rejected"]
    /\ UNCHANGED <<variant, responses, result, pc, cfg, ret, heap>>

\* the endpoint answers fetch i: a success status, another status, or the
\* request fails
HttpResponds(i) ==
    /\ fetches[i].at = "http"
    /\ \E outcome \in {"ok", "status", "error"} :
          fetches' = [fetches EXCEPT ![i].at = IF outcome = "ok" THEN "body"
                                               ELSE "rejected"]
    /\ UNCHANGED <<variant, responses, result, pc, cfg, ret, heap>>

\* the body of fetch i is decoded, or is no JSON
BodyParsed(i) ==
    /\ fetches[i].at = "body"
    /\ \/ \E body \in Bodies :
             fetches' = [fetches EXCEPT ![i].at = "fulfilled", ![i].json = body,
                                        ![i].order = completed(fetches) + 1]
       \/ fetches' = [fetches EXCEPT ![i].at = "rejected"]
    /\ UNCHANGED <<variant, responses, result, pc, cfg, ret, heap>>

\* the join is fulfilled: the merger runs on what was fetched and the
\* operation returns
JoinResolve ==
    /\ pc = "joining"
    /\ PromiseAll(fetches) = "fulfilled"
    /\ responses' = fetchedOf(fetches)
    /\ result' = merge(variant, responses')
    /\ ret' = returned(variant, result', cfg.query)
    /\ pc' = "done"
    /\ UNCHANGED <<variant, cfg, fetches, heap>>

\* the join is rejected: the catch block returns the empty response, while
\* the other fetches are still under way
JoinReject ==
    /\ pc = "joining"
    /\ PromiseAll(fetches) = "rejected"
    /\ ret' = Ok(EmptyResponse)
    /\ pc' = "done"
    /\ UNCHANGED <<variant, responses, result, cfg, fetches, heap>>

NextMain ==
    \/ MainStart
    \/ \E i \in 1..Len(fetches) : TokenArrives(i)
    \/ \E i \in 1..Len(fetches) : HttpResponds(i)
    \/ \E i \in 1..Len(fetches) : BodyParsed(i)
    \/ JoinResolve
    \/ JoinReject

SpecMain == InitMain /\ [][NextMain]_vars

AllFetched == \A i \in 1..Len(fetches) : fetches[i].at = "fulfilled"
SomeRejected == \E i \in 1..Len(fetches) : fetches[i].at = "rejected"

\* C8: all-or-nothing. Until the join settles nothing is merged or returned;
\* once a fetch has failed, in whatever order the fetches advanced, the
\* operation returns the canonical empty response, no error reaches the
\* caller and the merger has not run; the merger runs, on every target's
\* payload in target order, and a merged result is returned, only when every
\* fetch has succeeded
C8_AllOrNothing ==
    /\ pc = "joining" => (ret = NoResult /\ result = NoResult /\ Len(fetches) > 0)
    /\ pc = "done" =>
          /\ ret.ok
          /\ SomeRejected => (ret.value = EmptyResponse /\ result = NoResult)
          /\ (result # NoResult \/ ret.value # EmptyResponse) =>
                /\ AllFetched
                /\ Len(responses) = Len(fetches)
                /\ \A i \in 1..Len(fetches) :
                      responses[i] = [tenant |-> fetches[i].tenant, json |-> fetches[i].json]
                /\ result = merge(variant, responses)
                /\ ret = returned(variant, result, cfg.query)

C8_Witness ==
    /\ pc = "done" /\ Len(fetches) = 2
    /\ fetches[1].at = "fulfilled"
    /\ Len(normalize(fetches[1].json).records.a) > 0
    /\ fetches[2].at = "rejected"
    /\ ret = Ok(EmptyResponse)

(***************************************************************************)
(* Aliasing: the merger is called on objects the caller holds, and the     *)
(* emitted type descriptor is written to afterwards.                       *)
(***************************************************************************)
MetadataFacets ==
    {Undef,
     Obj([grail |-> Obj([query |-> ByText,
                         canonicalQuery |-> ByText,
                         scannedRecords |-> Num(1),
                         analysisTimeframe |-> OriginalTimeframe(1)]),
          notifications |-> Arr(<<Obj([severity |-> Str("x")])>>)])}
MetricsFacets == {Undef, Arr(<<Obj([name |-> Str("x")])>>)}

InputsHeld(resp) ==
    \E n \in 1..MaxTenants, flag \in BOOLEAN, ty \in TypesFacets, rows \in SampleRows :
      \E md \in MetadataFacets, mx \in MetricsFacets :
        resp = [i \in 1..n |->
                  [tenant |-> TenantName(i),
                   json |-> Locate(
                      Envelope(flag, i,
                         Obj(WithFacet(WithFacet(WithFacet([records |-> Arr(rows)],
                                "types", IF i = 1 THEN ty ELSE Arr(<<EmptyObj>>)),
                                "metadata", md),
                                "metrics", mx))),
                      <<ToString(i)>>)]]

InitAlias ==
    /\ variant \in {1, 2}
    /\ InputsHeld(responses)
    /\ heap = storeOf(responses)
    /\ result = NoResult
    /\ pc = "call"
    /\ cfg = NoConfig
    /\ fetches = <<>>
    /\ ret = NoResult

\* the writes a holder of the output can make to the emitted descriptor: a
\* property of the descriptor, of its mappings, or of one mapping
descriptorWrites(d) ==
    LET m == Get(d, "mappings")
    IN  {SetProp(d, k, Str("changed")) : k \in {"indexRange", "extra"}}
        \cup (IF IsObject(m)
              THEN {SetProp(d, "mappings", SetProp(m, k, Str("changed"))) :
                       k \in {"tenant", "extra"}}
                   \cup {SetProp(d, "mappings",
                                 SetProp(m, k, SetProp(m.o[k], "type", Str("changed")))) :
                            k \in {x \in DOMAIN m.o : IsObject(m.o[x])}}
              ELSE {})

\* the emitted type descriptor is written to after the merger has returned
MutateOutput ==
    /\ pc = "returned"
    /\ result.ok
    /\ Len(result.value.o.types.a) > 0
    /\ \E d \in descriptorWrites(result.value.o.types.a[1]) :
          result' = [result EXCEPT !.value.o.types.a[1] = d]
    /\ heap' = written(heap, result'.value)
    /\ pc' = "mutated"
    /\ UNCHANGED <<variant, responses, cfg, fetches, ret>>

NextAlias ==
    \/ MergeCall
    \/ MutateOutput

SpecAlias == InitAlias /\ [][NextAlias]_vars

\* C10: the merger leaves every object of every tenant's payload as it was
\* (rows, descriptors, metadata, grail and its query texts, metrics), the
\* emitted type descriptor shares no object with the input, and a later write
\* to the descriptor, its mappings or one of its mappings changes no object of
\* the input
C10_InputsUntouched ==
    /\ heap = storeOf(responses)
    /\ (pc \in {"returned", "mutated"} /\ result.ok) =>
          \A i \in 1..Len(result.value.o.types.a) :
              objectsIn(result.value.o.types.a[i]) = {}

C10_Witness ==
    /\ pc = "mutated"
    /\ DOMAIN heap # {}
    /\ LET src == Index(Normalized(1).types, 0)
       IN  /\ IsLocated(src)
           /\ IsLocated(Get(src, "mappings"))
           /\ IsLocated(Get(Get(src, "mappings"), "host"))
           /\ Get(Get(Get(result.value.o.types.a[1], "mappings"), "host"), "type")
                 = Str("changed")
           /\ Get(Get(Get(src, "mappings"), "host"), "type") = Str("string")
    /\ IsLocated(result.value.o.metrics)
    /\ \E r \in 1..Len(result.value.o.records.a) :
          IsLocated(Get(result.value.o.records.a[r], "timeframe"))

(***************************************************************************)
(* The grouping-clause rewrite, run on query texts built from their parts: *)
(* the merger (first copy) or the merger followed by main's rewrite        *)
(* (second copy) is applied to a payload whose grail carries the text, and *)
(* then once more to its own output.                                       *)
(***************************************************************************)
FieldNames == {<<"h">>, <<"k">>, TenantWord}

\* the fields, each followed by sep except the last
RECURSIVE JoinWith(_, _)
JoinWith(parts, sep) ==
    IF Len(parts) = 0 THEN <<>>
    ELSE IF Len(parts) = 1 THEN parts[1]
    ELSE parts[1] \o sep \o JoinWith(Tail(parts), sep)

ClauseParts ==
    [pre : {<<>>, <<"f", " ">>},
     by : {<<"b", "y", ":">>, <<"B", "Y", ":">>},
     gap : {<<>>, <<" ">>},
     pad : {<<>>, <<" ">>},
     fields : UNION {[1..n -> FieldNames] : n \in 0..MaxFields},
     post : {<<>>, <<" ", "|">>, <<" ", "b", "y", ":", "{", "}">>}]

\* the query text made of the parts p
Assemble(p) ==
    p.pre \o p.by \o p.gap \o <<"{">> \o p.pad
        \o JoinWith(p.fields, <<",">> \o p.pad) \o p.pad \o <<"}">> \o p.post

\* the clause the rewrite is to produce for the parts p, without spaces
RewrittenClause(p) ==
    <<"b", "y", ":", "{">>
       \o JoinWith(IF \E i \in 1..Len(p.fields) : p.fields[i] = TenantWord
                   THEN p.fields ELSE Append(p.fields, TenantWord), <<",">>)
       \o <<"}">>

ClauseTexts ==
    {[text |-> Assemble(p), pre |-> p.pre, post |-> p.post, clause |-> RewrittenClause(p)] :
        p \in ClauseParts}

\* texts without a grouping clause
PlainTexts ==
    {<<"f">>, <<"f", " ", "|">>, <<"b", "y", " ", "{", "h", "}">>,
     <<"b", "y", ":", "{", "h">>, <<"b", "y", ":", " ", "h", "}">>}

QueryPayload(c) ==
    Obj([records |-> Arr(<<>>),
         metadata |-> Obj([grail |-> Obj([query |-> Text(c), canonicalQuery |-> Text(c)])])])

InitQuery ==
    /\ variant \in {1, 2}
    /\ \E c \in {e.text : e \in ClauseTexts} \cup PlainTexts :
          responses = <<[tenant |-> "A", json |-> QueryPayload(c)]>>
    /\ cfg = [tenantVar |-> Undef, credentialId |-> Str("CREDENTIALS_VAULT-X"), query |-> ByText]
    /\ result = NoResult
    /\ pc = "call"
    /\ fetches = <<>>
    /\ ret = NoResult
    /\ heap = EmptyMap

\* the payload is merged and, in the second copy, main rewrites the texts
QueryCall ==
    /\ pc = "call"
    /\ result' = merge(variant, responses)
    /\ ret' = returned(variant, result', cfg.query)
    /\ pc' = "returned"
    /\ UNCHANGED <<variant, responses, cfg, fetches, heap>>

\* the output is handed in as a payload and goes through the same steps
QueryAgain ==
    /\ pc = "returned"
    /\ ret.ok
    /\ responses' = <<[tenant |-> "A", json |-> ret.value]>>
    /\ result' = merge(variant, responses')
    /\ ret' = returned(variant, result', cfg.query)
    /\ pc' = "again"
    /\ UNCHANGED <<variant, cfg, fetches, heap>>

NextQuery ==
    \/ QueryCall
    \/ QueryAgain

SpecQuery == InitQuery /\ [][NextQuery]_vars

TextIn == OptGet(OptGet(normalize(responses[1].json).metadata, "grail"), "query")
TextsOut ==
    {OptGet(OptGet(Get(ret.value, "metadata"), "grail"), "query"),
     OptGet(OptGet(Get(ret.value, "metadata"), "grail"), "canonicalQuery")}
StripSpaces(c) == SelectSeq(c, LAMBDA ch : ~IsSpace(ch))

\* out is pre, then the clause (spaces aside), then post
RewrittenAs(out, e) ==
    /\ out.t = "text"
    /\ Len(out.c) >= Len(e.pre) + Len(e.post)
    /\ SubSeq(out.c, 1, Len(e.pre)) = e.pre
    /\ SubSeq(out.c, Len(out.c) - Len(e.post) + 1, Len(out.c)) = e.post
    /\ StripSpaces(SubSeq(out.c, Len(e.pre) + 1, Len(out.c) - Len(e.post))) = e.clause

\* C11: a text with a clause by: { f1, ..., fn }, in either case and with any
\* spacing, comes out with the clause listing f1..fn in order followed by one
\* tenant, or f1..fn alone when tenant is among them, the text before and
\* after the clause unchanged; a text without a clause comes out unchanged;
\* and the rewrite applied to its own output changes nothing
C11_ByClauseRewritten ==
    /\ (pc = "returned" /\ ret.ok) =>
          /\ \A e \in ClauseTexts :
                TextIn = Text(e.text) => \A out \in TextsOut : RewrittenAs(out, e)
          /\ TextIn.c \in PlainTexts => TextsOut = {TextIn}
    /\ (pc = "again" /\ ret.ok) => TextsOut = {TextIn}

\* the same, of the first copy alone
C11_FirstCopy == variant = 1 => C11_ByClauseRewritten

(***************************************************************************)
(* Configuration errors of the top-level operation.                        *)
(***************************************************************************)
MissingEndpoint ==
    \E i \in 1..Len(selected(variant, cfg.tenantVar)) :
        selected(variant, cfg.tenantVar)[i].s \notin DOMAIN tenantMap(variant)
ConfigError ==
    \/ ~Truthy(cfg.credentialId)
    \/ ~Truthy(cfg.query)
    \/ MissingEndpoint
    \/ Len(targets(variant, cfg.tenantVar)) = 0

\* C12: with a configuration error (no credential id, no query text, a
\* selected tenant without endpoint, no usable target) the operation ends by
\* failing: an error reaches the caller and no response is returned
C12_ConfigErrorsFailOutright ==
    (ConfigError /\ pc \in {"done", "thrown"}) => (pc = "thrown" /\ ~ret.ok)

(***************************************************************************)
(* Completion order of the fetches.                                        *)
(***************************************************************************)
\* the payloads that arrived, in the order of the target list
InTargetOrder ==
    [i \in 1..Len(targets(variant, cfg.tenantVar)) |->
        [tenant |-> targets(variant, cfg.tenantVar)[i].tenant, json |-> fetches[i].json]]

\* C13: when every fetch has succeeded, the merger's input is the payloads
\* in target-list order and the operation's result is what the merger (and
\* the second copy's rewrite) makes of that sequence, in whatever order the
\* fetches completed: record order, the base tenant and the timezone
\* tie-break depend on the target list and the payloads only
C13_CompletionOrderIrrelevant ==
    (pc = "done" /\ AllFetched) =>
        /\ Len(fetches) = Len(targets(variant, cfg.tenantVar))
        /\ responses = InTargetOrder
        /\ result = merge(variant, InTargetOrder)
        /\ ret = returned(variant, merge(variant, InTargetOrder), cfg.query)

C13_Witness ==
    /\ pc = "done" /\ AllFetched /\ Len(fetches) = 2
    /\ fetches[2].order < fetches[1].order
    /\ fetches[1].json # fetches[2].json
    /\ result.ok /\ ret = result
    /\ Len(result.value.o.records.a) = 3
    /\ result.value.o.records.a[1].o.tenant = Str(targets(variant, cfg.tenantVar)[1].tenant)
    /\ merge(variant, <<InTargetOrder[2], InTargetOrder[1]>>) # result

(***************************************************************************)
(* Which execution time counts, and counters that are not numbers.         *)
(***************************************************************************)
TopLevelTime(i) == OptGet(Normalized(i).metadata, "executionTimeMilliseconds")
GrailTime(i) == OptGet(GrailOf(i), "executionTimeMilliseconds")
\* the execution time with the top-level field taking precedence
ChosenTime(i) == IF TopLevelTime(i) # Undef THEN TopLevelTime(i) ELSE GrailTime(i)
SumChosen ==
    LET F[k \in 0..Len(responses)] ==
          IF k = 0 THEN 0 ELSE F[k - 1] + ChosenTime(k).n
    IN  F[Len(responses)]
BreakdownOf(c, i) == OutGrail.o[c \o "-" \o responses[i].tenant]

\* C14: with distinct tenants and numeric counters, a tenant's
\* executionTimeMilliseconds-<tenant> key holds its top-level execution time
\* whenever that field is there (0 included) and the grail one only when the
\* top-level field is absent, and the summed execution time adds up those values
C14_TopLevelTimeWins ==
    (Returned /\ variant = 1 /\ Len(responses) > 0 /\ DistinctTenants
       /\ \A i \in 1..Len(responses) : NumericCounters(i)) =>
        /\ \A i \in 1..Len(responses) :
              BreakdownOf("executionTimeMilliseconds", i) = ChosenTime(i)
        /\ Get(Out.metadata, "executionTimeMilliseconds") = Num(SumChosen)

\* a value that is missing or not numeric: undefined, null, an object, or a
\* string that is not a numeral
NonNumeric(v) ==
    \/ v.t \in {"undef", "null", "obj"}
    \/ (v.t = "str" /\ StringNumber(v.s) = NaN)
TotalOf(c) ==
    IF c = "executionTimeMilliseconds" THEN Get(Out.metadata, c) ELSE Get(OutGrail, c)
SumBreakdowns(c) ==
    LET F[k \in 0..Len(responses)] ==
          IF k = 0 THEN 0 ELSE F[k - 1] + BreakdownOf(c, k).n
    IN  F[Len(responses)]

\* C15: with distinct tenants, a tenant whose counter is missing or not
\* numeric gets 0 under its breakdown key, every breakdown value and every
\* total is a finite number, and each total is the sum of the breakdown
\* values (so such a tenant adds nothing to it)
C15_BrokenCountersCountZero ==
    (Returned /\ variant = 1 /\ Len(responses) > 0 /\ DistinctTenants) =>
        /\ \A i \in 1..Len(responses) : \A c \in GrailCounters :
              NonNumeric(OptGet(GrailOf(i), c)) => BreakdownOf(c, i) = Num(0)
        /\ \A i \in 1..Len(responses) :
              (NonNumeric(TopLevelTime(i)) /\ NonNumeric(GrailTime(i)))
                 => BreakdownOf("executionTimeMilliseconds", i) = Num(0)
        /\ \A i \in 1..Len(responses) : \A c \in CounterNames :
              IsFinite(BreakdownOf(c, i))
        /\ \A c \in CounterNames : IsFinite(TotalOf(c))
        /\ \A c \in CounterNames : TotalOf(c) = Num(SumBreakdowns(c))

(***************************************************************************)
(* Validity of the computed timeframe.                                     *)
(***************************************************************************)
\* every record with both markers finite has its start no later than its end
RecordsWellOrdered ==
    \A p \in Cells :
        LET raw == RawRows(p[1])[p[2]]
        IN  (IsFinite(StartOf(raw)) /\ IsFinite(EndOf(raw))) => StartOf(raw).n <= EndOf(raw).n
\* the merged analysisTimeframe is a computed interval
TimeframeComputed == FiniteStarts # {} /\ FiniteEnds # {}
ComputedStart == DateParse(Get(Get(OutGrail, "analysisTimeframe"), "start"))
ComputedEnd == DateParse(Get(Get(OutGrail, "analysisTimeframe"), "end"))

\* C16: when every record with both markers has start <= end and the merged
\* analysisTimeframe is a computed interval, its start is not later than its
\* end, and every finite start and every finite end of a record lies within it
C16_ComputedRangeValid ==
    (Returned /\ RecordsWellOrdered /\ TimeframeComputed) =>
        /\ IsFinite(ComputedStart) /\ IsFinite(ComputedEnd)
        /\ ComputedStart.n <= ComputedEnd.n
        /\ \A x \in FiniteStarts \cup FiniteEnds :
              ComputedStart.n <= x /\ x <= ComputedEnd.n

====
